---- MODULE Spec2Model ----
(***************************************************************************)
(* A model of compartment.hpp: the open-addressing Table and Set, the      *)
(* ArenaAllocator with its Region chains, and the FixedBufferAllocator.    *)
(* Every component has its own specification over its own variables; the   *)
(* variables of the other components keep their initial values.            *)
(***************************************************************************)
EXTENDS Integers, Sequences, FiniteSets, TLC

(* ------------------------------ bounds -------------------------------- *)
\* Largest capacity handed to Table::alloc / Set::alloc.
MaxInitCap == 2
\* Keys and set elements are 0..MaxKey (Hash<size_t> is the identity).
MaxKey == 4
\* Values are 1..MaxVal.
MaxVal == 2

Keys == 0..MaxKey
Values == 1..MaxVal

VARIABLES
    tab,        \* the Table: keys[], values[], meta[], count, capacity
    shadow,     \* ghost: key -> value of its most recent completed put
    ret,        \* what the last call returned
    tstate,     \* "ok", or "hang" when a call never returns
    allocator,  \* "fresh": every block handed out is untouched, zero-filled
                \* pages; "recycled": blocks may hold what was written before
    clear0,     \* ghost: the table was allocated with every meta byte clear
    nrehash,    \* ghost: rehashes performed so far
    set,        \* the Set: values[], meta[], count, capacity
    elems,      \* ghost: the elements of the completed Set::put calls
    sret,       \* what the last Set call returned
    sstate,     \* "ok", or "hang" when a Set call never returns
    sclear0,    \* ghost: the set was allocated with every meta byte clear
    oob,        \* ghost: a Set call has used an index >= capacity
    head,       \* ArenaAllocator::head, most recently added region first
    region_pool,\* ArenaAllocator::region_pool, most recently added first
    astate,     \* "ok"; "abort" after a failed COMT_ASSERT; "segv" after a fault
    aret,       \* what the last arena call did
    handed,     \* ghost: bytes handed out since the last reset
    since,      \* ghost: the last reset(), while only raw_alloc calls
                \* followed it and their sizes total at most the bytes in
                \* use before it
    released,   \* the data blocks passed to munmap, in call order
    blocks,     \* ghost (SpecArenaBlocks): the blocks raw_alloc and
                \* raw_resize returned since the last reset()
    copied,     \* ghost (SpecArenaBlocks): the memcpy of the last call, if
                \* it was a raw_resize
    buffer,     \* FixedBufferAllocator::buffer: "null", "mapped" or "failed"
    buffer_size,\* FixedBufferAllocator::buffer_size
    buffer_off, \* FixedBufferAllocator::buffer_off; a negative value v is
                \* the size_t 2^64 + v
    bret,       \* what the last FixedBufferAllocator call did
    prev        \* ghost: what the call before the last did

tabVars == <<tab, shadow, ret, tstate, clear0, nrehash>>

setVars == <<set, elems, sret, sstate, sclear0, oob>>

arenaVars == <<head, region_pool, astate, aret, handed, since, released, blocks, copied>>

bumpVars == <<buffer, buffer_size, buffer_off, bret, prev>>

vars == <<tab, shadow, ret, tstate, allocator, clear0, nrehash,
          set, elems, sret, sstate, sclear0, oob,
          head, region_pool, astate, aret, handed, since, released, blocks, copied,
          buffer, buffer_size, buffer_off, bret, prev>>

(* ---------------------- memory handed out by alloc --------------------- *)
\* Table::alloc and Set::alloc never write keys[], values[] or meta[]: a new
\* store holds whatever the block held.  A block is described by the cells
\* that are not zero: none, all of them, or the one at index idx.
ZeroCell == [meta |-> 0, key |-> 0, val |-> 0]

ZeroMem == [kind |-> "zero", idx |-> 0, cell |-> ZeroCell]

\* The stale blocks of the model: every cell holds an occupied slot with key
\* 0, or the cell at index 3 holds an occupied slot with key 3 or key 2.
StaleMems ==
    {[kind |-> "all", idx |-> 0, cell |-> [meta |-> 1, key |-> 0, val |-> MaxVal]]}
    \cup {[kind |-> "at", idx |-> 3, cell |-> [meta |-> 1, key |-> s, val |-> MaxVal]] :
              s \in {2, 3}}

\* The blocks an allocator in the given state can hand out.
Memory(a) == IF a = "fresh" THEN {ZeroMem} ELSE {ZeroMem} \cup StaleMems

CellAt(mem, i) ==
    IF mem.kind = "all" \/ (mem.kind = "at" /\ mem.idx = i) THEN mem.cell ELSE ZeroCell

(* ------------------------------- Table -------------------------------- *)
COMT_TAB_META_OCCUPIED == 1

COMT_TAB_IS_OCCUPIED(m) == m % 2 = COMT_TAB_META_OCCUPIED

COMT_TAB_IS_FREE(m) == ~COMT_TAB_IS_OCCUPIED(m)

\* meta |= COMT_TAB_META_OCCUPIED
SetOccupied(m) == IF COMT_TAB_IS_OCCUPIED(m) THEN m ELSE m + COMT_TAB_META_OCCUPIED

\* A growth that adds a single slot.
GrowthByOne(x) == x + 1

COMT_TABLE_GROWTH_FACTOR(x) == (x + 1) * 3

\* Hash<size_t>::hash and Hash<uint32_t>::hash return the value itself.
Hash(k) == k

\* The load the table would have with one more slot occupied.
LoadAfterInsert(t) == ((t.count + 1) * 100) \div t.capacity

\* (uint8_t)((double)(count * 100) / (double)capacity): the cast truncates.
load_percentage(t) == (t.count * 100) \div t.capacity

TableAlloc(capacity, mem) ==
    [keys     |-> [i \in 0..(capacity - 1) |-> CellAt(mem, i).key],
     values   |-> [i \in 0..(capacity - 1) |-> CellAt(mem, i).val],
     meta     |-> [i \in 0..(capacity - 1) |-> CellAt(mem, i).meta],
     count    |-> 0,
     capacity |-> capacity]

\* The probe loop of put, from slot idx, n slots examined so far.  The loop
\* has no exit of its own: when every slot was examined and none is free or
\* holds the key, it examines the same slots again, for ever.
RECURSIVE PutProbe(_, _, _, _, _)
PutProbe(t, key, value, idx, n) ==
    IF n >= t.capacity THEN [tab |-> t, st |-> "hang", rehashes |-> 0]
    ELSE IF COMT_TAB_IS_FREE(t.meta[idx])
    THEN [tab |-> [t EXCEPT !.meta[idx] = SetOccupied(@),
                            !.values[idx] = value,
                            !.keys[idx] = key,
                            !.count = @ + 1],
          st |-> "ok", rehashes |-> 0]
    ELSE IF t.keys[idx] = key
    THEN [tab |-> [t EXCEPT !.values[idx] = value, !.keys[idx] = key],
          st |-> "ok", rehashes |-> 0]
    ELSE PutProbe(t, key, value, (idx + 1) % t.capacity, n + 1)

RECURSIVE TablePut(_, _, _, _)
RECURSIVE Reinsert(_, _, _, _, _)

\* The loop of the rehash: slots i.. of the old table t are put into new.
Reinsert(t, new, i, mem, done) ==
    IF i >= t.capacity THEN [tab |-> new, st |-> "ok", rehashes |-> done]
    ELSE IF COMT_TAB_IS_OCCUPIED(t.meta[i])
    THEN LET r == TablePut(new, t.keys[i], t.values[i], mem)
         IN  IF r.st # "ok" THEN [tab |-> t, st |-> r.st, rehashes |-> done + r.rehashes]
             ELSE Reinsert(t, r.tab, i + 1, mem, done + r.rehashes)
    ELSE Reinsert(t, new, i + 1, mem, done)

\* Table::put; mem is the block the allocator hands to a rehash.
TablePut(t, key, value, mem) ==
    LET grown == IF load_percentage(t) >= 70
                 THEN Reinsert(t, TableAlloc(COMT_TABLE_GROWTH_FACTOR(t.capacity), mem),
                               0, mem, 1)
                 ELSE [tab |-> t, st |-> "ok", rehashes |-> 0]
    IN  IF grown.st # "ok" THEN grown
        ELSE LET r == PutProbe(grown.tab, key, value,
                               Hash(key) % grown.tab.capacity, 0)
             IN  [tab |-> r.tab, st |-> r.st, rehashes |-> grown.rehashes]

\* The do-while of get and has: n slots examined before this one.
RECURSIVE FindProbe(_, _, _, _, _)
FindProbe(t, key, idx, initial_idx, n) ==
    IF COMT_TAB_IS_OCCUPIED(t.meta[idx]) /\ t.keys[idx] = key
    THEN [found |-> TRUE, idx |-> idx, steps |-> n + 1]
    ELSE IF (idx + 1) % t.capacity # initial_idx
    THEN FindProbe(t, key, (idx + 1) % t.capacity, initial_idx, n + 1)
    ELSE [found |-> FALSE, idx |-> idx, steps |-> n + 1]

\* Table::get; out is what *out held before the call.
TableGet(t, key, out) ==
    LET p == FindProbe(t, key, Hash(key) % t.capacity, Hash(key) % t.capacity, 0)
    IN  [op |-> "get", key |-> key, found |-> p.found,
         out |-> IF p.found THEN t.values[p.idx] ELSE out,
         was |-> out, steps |-> p.steps]

TableHas(t, key) ==
    LET p == FindProbe(t, key, Hash(key) % t.capacity, Hash(key) % t.capacity, 0)
    IN  [op |-> "has", key |-> key, found |-> p.found, out |-> 0, was |-> 0,
         steps |-> p.steps]

NoRet == [op |-> "none", key |-> 0, found |-> FALSE, out |-> 0, was |-> 0, steps |-> 0]

EmptyShadow == [k \in {} |-> 0]

AllClear(t) == \A i \in 0..(t.capacity - 1) : COMT_TAB_IS_FREE(t.meta[i])

(* ------------- the components a specification leaves alone ------------- *)
NoStore == [values |-> << >>, meta |-> << >>, count |-> 0, capacity |-> 0]

NoSRet == [op |-> "none", elem |-> 0, found |-> FALSE, st |-> "ok", steps |-> 0]

NoARet == [op |-> "none", size |-> 0, s |-> 0, os |-> "ok", data |-> 0, off |-> 0]

NoSince == [active |-> FALSE, used |-> 0, largest |-> 0, total |-> 0, len |-> 0]

NoTable ==
    /\ tab = NoStore
    /\ shadow = EmptyShadow
    /\ ret = NoRet
    /\ tstate = "ok"
    /\ clear0 = TRUE
    /\ nrehash = 0

NoSet ==
    /\ set = NoStore
    /\ elems = {}
    /\ sret = NoSRet
    /\ sstate = "ok"
    /\ sclear0 = TRUE
    /\ oob = FALSE

\* No block: raw_resize(nullptr, 0, new_size).
NoBlock == [data |-> 0, off |-> 0, size |-> 0, s |-> 0]

\* No memcpy.
NoCopy == [src |-> NoBlock, data |-> 0, off |-> 0, len |-> 0, over |-> 0,
           behind |-> "none"]

\* ArenaAllocator{}: both chains are null.
NoArena ==
    /\ head = << >>
    /\ region_pool = << >>
    /\ astate = "ok"
    /\ aret = NoARet
    /\ handed = 0
    /\ since = NoSince
    /\ released = << >>
    /\ blocks = {}
    /\ copied = NoCopy

\* A call of the FixedBufferAllocator: its size argument, the aligned size s,
\* the pointer (ptr is the buffer it points into, off the offset in it), the
\* cursor cur the call found, and what the OS did in it.
NoBRet ==
    [op |-> "none", size |-> 0, s |-> 0, ptr |-> "null", off |-> 0, cur |-> 0,
     os |-> "ok"]

\* FixedBufferAllocator{}: no buffer yet.
NoBump ==
    /\ buffer = "null"
    /\ buffer_size = 0
    /\ buffer_off = 0
    /\ bret = NoBRet
    /\ prev = NoBRet

\* The table as Table::alloc(a, capacity) leaves it, in the block mem.
TableIs(capacity, mem) ==
    /\ tab = TableAlloc(capacity, mem)
    /\ shadow = EmptyShadow
    /\ ret = NoRet
    /\ tstate = "ok"
    /\ clear0 = AllClear(tab)
    /\ nrehash = 0

\* Table<K, V>::alloc(a, capacity) on an allocator in either state.
InitTable ==
    /\ allocator \in {"fresh", "recycled"}
    /\ \E capacity \in 1..MaxInitCap : \E mem \in Memory(allocator) :
           TableIs(capacity, mem)
    /\ NoSet
    /\ NoArena
    /\ NoBump

Put(key, value) ==
    /\ UNCHANGED <<setVars, arenaVars, bumpVars>>
    /\ tstate = "ok"
    /\ \E mem \in (IF load_percentage(tab) >= 70 THEN Memory(allocator) ELSE {ZeroMem}) :
           LET r == TablePut(tab, key, value, mem)
           IN  /\ tab' = r.tab
               /\ tstate' = r.st
               /\ nrehash' = nrehash + r.rehashes
               /\ shadow' = IF r.st = "ok" THEN (key :> value) @@ shadow ELSE shadow
               /\ ret' = [NoRet EXCEPT !.op = "put"]
    /\ UNCHANGED <<allocator, clear0>>

\* *out holds OutInit, which is no value of the table, before every get.
OutInit == 0

Get(key, out) ==
    /\ tstate = "ok"
    /\ ret' = TableGet(tab, key, out)
    /\ UNCHANGED <<tab, shadow, tstate, allocator, clear0, nrehash, setVars, arenaVars, bumpVars>>

Has(key) ==
    /\ tstate = "ok"
    /\ ret' = TableHas(tab, key)
    /\ UNCHANGED <<tab, shadow, tstate, allocator, clear0, nrehash, setVars, arenaVars, bumpVars>>

NextTable ==
    \/ \E key \in Keys, value \in Values : Put(key, value)
    \/ \E key \in Keys : Get(key, OutInit)
    \/ \E key \in Keys : Has(key)

SpecTable == InitTable /\ [][NextTable]_vars

(* ------------------- the capacity-47 scenario (Table) ------------------ *)
DEFAULT_CAPACITY == 47

\* Puts made by the scenario: put(k, 2 * k) for k = 0, 1, ...
MaxScenarioPuts == 34

InitScenario ==
    /\ allocator \in {"fresh", "recycled"}
    /\ \E mem \in Memory(allocator) : TableIs(DEFAULT_CAPACITY, mem)
    /\ NoSet
    /\ NoArena
    /\ NoBump

PutNext ==
    LET k == Cardinality(DOMAIN shadow)
    IN  k < MaxScenarioPuts /\ Put(k, 2 * k)

NextScenario ==
    \/ PutNext
    \/ \E key \in 0..(MaxScenarioPuts - 1) : Get(key, OutInit)
    \/ \E key \in 0..(MaxScenarioPuts - 1) : Has(key)

SpecScenario == InitScenario /\ [][NextScenario]_vars

(* -------------------------------- Set --------------------------------- *)
COMT_SET_GROWTH_FACTOR(x) == COMT_TABLE_GROWTH_FACTOR(x)

\* (uint8_t)(100.0 * (double)count / (double)capacity)
SetLoad(s) == (100 * s.count) \div s.capacity

SetAlloc(capacity, mem) ==
    [values   |-> [i \in 0..(capacity - 1) |-> CellAt(mem, i).key],
     meta     |-> [i \in 0..(capacity - 1) |-> CellAt(mem, i).meta],
     count    |-> 0,
     capacity |-> capacity]

\* Set::put and Set::has start at index hash(elem), not reduced by capacity.
\* meta[i] and values[i] with i >= capacity lie outside the arrays: what a
\* read finds there is not decided by the set.  It reads as a free slot, as
\* an occupied slot holding elem, or as an occupied slot holding another
\* element; a write there changes no slot of the set.
OobReads == {"free", "equal", "other"}

Touched(r) == [r EXCEPT !.oob = TRUE]

RECURSIVE SetPutProbe(_, _, _, _, _)
SetPutProbe(s, elem, hash, n, rd) ==
    IF hash >= s.capacity
    THEN IF rd = "free"
         THEN [set |-> [s EXCEPT !.count = @ + 1], st |-> "ok", rehashes |-> 0,
               oob |-> TRUE]
         ELSE IF rd = "equal"
         THEN [set |-> s, st |-> "ok", rehashes |-> 0, oob |-> TRUE]
         ELSE Touched(SetPutProbe(s, elem, (hash + 1) % s.capacity, n, rd))
    ELSE IF n >= s.capacity
    THEN [set |-> s, st |-> "hang", rehashes |-> 0, oob |-> FALSE]
    ELSE IF COMT_TAB_IS_FREE(s.meta[hash])
    THEN [set |-> [s EXCEPT !.meta[hash] = SetOccupied(@),
                            !.values[hash] = elem,
                            !.count = @ + 1],
          st |-> "ok", rehashes |-> 0, oob |-> FALSE]
    ELSE IF s.values[hash] = elem
    THEN [set |-> [s EXCEPT !.values[hash] = elem],
          st |-> "ok", rehashes |-> 0, oob |-> FALSE]
    ELSE SetPutProbe(s, elem, (hash + 1) % s.capacity, n + 1, rd)

RECURSIVE SetPut(_, _, _, _)
RECURSIVE SetReinsert(_, _, _, _, _, _, _)

SetReinsert(s, new, i, mem, rd, done, touched) ==
    IF i >= s.capacity
    THEN [set |-> new, st |-> "ok", rehashes |-> done, oob |-> touched]
    ELSE IF COMT_TAB_IS_FREE(s.meta[i])
    THEN SetReinsert(s, new, i + 1, mem, rd, done, touched)
    ELSE LET r == SetPut(new, s.values[i], mem, rd)
         IN  IF r.st # "ok"
             THEN [set |-> s, st |-> r.st, rehashes |-> done + r.rehashes,
                   oob |-> touched \/ r.oob]
             ELSE SetReinsert(s, r.set, i + 1, mem, rd, done + r.rehashes,
                              touched \/ r.oob)

\* Set::put; mem is the block a rehash is handed, rd what reads outside the
\* arrays find.
SetPut(s, elem, mem, rd) ==
    LET grown == IF SetLoad(s) >= 70
                 THEN SetReinsert(s, SetAlloc(COMT_SET_GROWTH_FACTOR(s.capacity), mem),
                                  0, mem, rd, 1, FALSE)
                 ELSE [set |-> s, st |-> "ok", rehashes |-> 0, oob |-> FALSE]
    IN  IF grown.st # "ok" THEN grown
        ELSE LET r == SetPutProbe(grown.set, elem, Hash(elem), 0, rd)
             IN  [set |-> r.set, st |-> r.st, rehashes |-> grown.rehashes,
                  oob |-> grown.oob \/ r.oob]

\* The do-while of Set::has, n slots examined before this one.  idx is
\* compared with hash, which the loop never reaches again when
\* hash >= capacity: once every slot was examined the same slots come round.
RECURSIVE SetFind(_, _, _, _, _, _)
SetFind(s, elem, idx, hash, n, rd) ==
    LET match == IF idx >= s.capacity THEN rd = "equal"
                 ELSE COMT_TAB_IS_OCCUPIED(s.meta[idx]) /\ s.values[idx] = elem
        next  == (idx + 1) % s.capacity
    IN  IF match THEN [found |-> TRUE, st |-> "ok", steps |-> n + 1]
        ELSE IF next = hash THEN [found |-> FALSE, st |-> "ok", steps |-> n + 1]
        ELSE IF n >= s.capacity THEN [found |-> FALSE, st |-> "hang", steps |-> n + 1]
        ELSE SetFind(s, elem, next, hash, n + 1, rd)

SetHas(s, elem, rd) ==
    LET p == SetFind(s, elem, Hash(elem), Hash(elem), 0, rd)
    IN  [op |-> "has", elem |-> elem, found |-> p.found, st |-> p.st, steps |-> p.steps]

SetAllClear(s) == \A i \in 0..(s.capacity - 1) : COMT_TAB_IS_FREE(s.meta[i])

\* Set<T>::alloc(a, capacity) on an allocator in either state.
InitSet ==
    /\ allocator \in {"fresh", "recycled"}
    /\ \E capacity \in 1..MaxInitCap : \E mem \in Memory(allocator) :
           set = SetAlloc(capacity, mem)
    /\ elems = {}
    /\ sret = NoSRet
    /\ sstate = "ok"
    /\ sclear0 = SetAllClear(set)
    /\ oob = FALSE
    /\ NoTable
    /\ NoArena
    /\ NoBump

SPut(elem) ==
    /\ sstate = "ok"
    /\ \E mem \in (IF SetLoad(set) >= 70 THEN Memory(allocator) ELSE {ZeroMem}) :
       \E rd \in OobReads :
           LET r == SetPut(set, elem, mem, rd)
           IN  /\ set' = r.set
               /\ sstate' = r.st
               /\ oob' = (oob \/ r.oob)
               /\ elems' = IF r.st = "ok" THEN elems \cup {elem} ELSE elems
               /\ sret' = [NoSRet EXCEPT !.op = "put", !.st = r.st]
    /\ UNCHANGED <<allocator, sclear0, tabVars, arenaVars, bumpVars>>

SHas(elem) ==
    /\ sstate = "ok"
    /\ \E rd \in OobReads :
           LET r == SetHas(set, elem, rd)
           IN  /\ sret' = r
               /\ sstate' = r.st
               /\ oob' = (oob \/ Hash(elem) >= set.capacity)
    /\ UNCHANGED <<set, elems, allocator, sclear0, tabVars, arenaVars, bumpVars>>

NextSet ==
    \/ \E elem \in Keys : SPut(elem)
    \/ \E elem \in Keys : SHas(elem)

SpecSet == InitSet /\ [][NextSet]_vars

(* ------------------------------- Arena -------------------------------- *)
COMT_PAGE_SIZE == 4096

\* sizeof(void*)
PointerSize == 8

\* sizeof(ArenaAllocator::Region): next, data, size, off
RegionDescSize == 32

\* Regions the head chain may hold in SpecArena.
MaxRegions == 3

\* size + ((align - (size & (align - 1))) & (align - 1)), align a power of 2.
align_to(size, align) == size + ((align - (size % align)) % align)

\* What the OS does in a call: every mapping succeeds, the mapping of the
\* metadata page fails, or the mapping of a region's data block fails.
OsOutcomes == {"ok", "nopage", "nodata"}

\* A region served although the request does not fit, while it has room.
FitsWhenNotFull(r, s) == r.off < r.size

\* head->size - head->off >= size, in unsigned arithmetic: the difference
\* of an off above size wraps to a value above every request.
Fits(r, s) == IF r.off <= r.size THEN r.size - r.off >= s ELSE TRUE

\* The first region of the chain h that fits s, or 0.
FirstFit(h, s) ==
    IF \E i \in 1..Len(h) : Fits(h[i], s)
    THEN CHOOSE i \in 1..Len(h) : Fits(h[i], s) /\ \A j \in 1..(i - 1) : ~Fits(h[j], s)
    ELSE 0

\* _init_region: the data block comes from COMT_ALLOC_PAGE, off is 0.  The
\* block is named by the number of the region in creation order.
InitRegion(h, size) == [data |-> Len(h) + 1, size |-> size, off |-> 0]

\* ArenaAllocator::alloc_region on the chains h and pool.  The loop over
\* region_pool never advances current_region: when the pool's first region
\* has no room for a descriptor it runs head = head->next until head is
\* null and then reads through the null pointer.
alloc_region(h, pool, size, os) ==
    LET region_size == align_to(size, COMT_PAGE_SIZE)
        region == InitRegion(h, region_size)
    IN  IF pool # << >>
        THEN IF pool[1].size - pool[1].off >= RegionDescSize
             THEN IF os = "nodata"
                  THEN [st |-> "abort", head |-> h, pool |-> pool, region |-> region]
                  ELSE [st |-> "ok", head |-> h,
                        pool |-> [pool EXCEPT
                                    ![1].off = @ + align_to(RegionDescSize, PointerSize)],
                        region |-> region]
             ELSE [st |-> "segv", head |-> << >>, pool |-> pool, region |-> region]
        ELSE LET page == [data |-> 0, size |-> COMT_PAGE_SIZE,
                          off |-> align_to(RegionDescSize, PointerSize)]
             IN  IF os = "nopage"
                 THEN [st |-> "segv", head |-> h, pool |-> <<page>> \o pool,
                       region |-> region]
                 ELSE IF os = "nodata"
                 THEN [st |-> "abort", head |-> h, pool |-> <<page>> \o pool,
                       region |-> region]
                 ELSE [st |-> "ok", head |-> h, pool |-> <<page>> \o pool,
                       region |-> region]

\* ArenaAllocator::raw_alloc: the block is (data, off) of a region.
raw_alloc(h, pool, size, os) ==
    LET s == align_to(size, PointerSize)
        i == FirstFit(h, s)
    IN  IF i # 0
        THEN [st |-> "ok", head |-> [h EXCEPT ![i].off = @ + s], pool |-> pool,
              s |-> s, data |-> h[i].data, off |-> h[i].off]
        ELSE LET r == alloc_region(h, pool, align_to(s, COMT_PAGE_SIZE), os)
             IN  IF r.st # "ok"
                 THEN [st |-> r.st, head |-> r.head, pool |-> r.pool,
                       s |-> s, data |-> 0, off |-> 0]
                 ELSE [st |-> "ok",
                       head |-> <<[r.region EXCEPT !.off = @ + s]>> \o r.head,
                       pool |-> r.pool,
                       s |-> s, data |-> r.region.data, off |-> r.region.off]

RECURSIVE SumOff(_)
SumOff(h) == IF h = << >> THEN 0 ELSE Head(h).off + SumOff(Tail(h))

RECURSIVE SumSize(_)
SumSize(h) == IF h = << >> THEN 0 ELSE Head(h).size + SumSize(Tail(h))

RECURSIVE MaxSize(_)
MaxSize(h) ==
    IF h = << >> THEN 0
    ELSE IF Head(h).size >= MaxSize(Tail(h)) THEN Head(h).size ELSE MaxSize(Tail(h))

\* ArenaAllocator::avail: Region::avail asserts off <= size.
avail(h) == SumSize(h) - SumOff(h)

\* A reset that leaves the offsets as they are.
ResetKeepsOffsets(h) == h

\* ArenaAllocator::reset
reset(h) == [i \in 1..Len(h) |-> [h[i] EXCEPT !.off = 0]]

\* ArenaAllocator::reserve
reserve(h, pool, bytes, os) ==
    IF \E i \in 1..Len(h) : h[i].off > h[i].size
    THEN [st |-> "abort", head |-> h, pool |-> pool]
    ELSE IF avail(h) < bytes
    THEN LET r == alloc_region(h, pool, bytes - avail(h), os)
         IN  IF r.st # "ok" THEN [st |-> r.st, head |-> r.head, pool |-> r.pool]
             ELSE [st |-> "ok", head |-> <<r.region>> \o r.head, pool |-> r.pool]
    ELSE [st |-> "ok", head |-> h, pool |-> pool]

ARet(op, size, s, os, data, off) ==
    [op |-> op, size |-> size, s |-> s, os |-> os, data |-> data, off |-> off]

\* raw_alloc, and raw_resize, which is raw_alloc(new_size) and a memcpy.
RawAlloc(op, size, limit) ==
    /\ astate = "ok"
    /\ \E os \in OsOutcomes :
           LET r == raw_alloc(head, region_pool, size, os)
           IN  /\ Len(r.head) <= limit
               /\ head' = r.head
               /\ region_pool' = r.pool
               /\ astate' = r.st
               /\ aret' = ARet(op, size, r.s, os, r.data, r.off)
               /\ handed' = IF r.st = "ok" THEN handed + r.s ELSE handed
               /\ since' = IF ~since.active THEN since
                           ELSE IF op = "raw_alloc" /\ r.st = "ok"
                                   /\ since.total + r.s <= since.used
                           THEN [since EXCEPT !.total = @ + r.s]
                           ELSE NoSince
    /\ UNCHANGED <<released, blocks, copied, allocator, tabVars, setVars, bumpVars>>

\* ArenaAllocator::raw_dealloc does nothing.
RawDealloc(size) ==
    /\ astate = "ok"
    /\ aret' = ARet("raw_dealloc", size, 0, "ok", 0, 0)
    /\ copied' = NoCopy
    /\ UNCHANGED <<head, region_pool, astate, handed, since, released, blocks,
                   allocator, tabVars, setVars, bumpVars>>

Reserve(bytes, limit) ==
    /\ astate = "ok"
    /\ \E os \in OsOutcomes :
           LET r == reserve(head, region_pool, bytes, os)
           IN  /\ Len(r.head) <= limit
               /\ head' = r.head
               /\ region_pool' = r.pool
               /\ astate' = r.st
               /\ aret' = ARet("reserve", bytes, 0, os, 0, 0)
    /\ since' = NoSince
    /\ copied' = NoCopy
    /\ UNCHANGED <<handed, released, blocks, allocator, tabVars, setVars, bumpVars>>

Reset ==
    /\ astate = "ok"
    /\ head' = reset(head)
    /\ aret' = ARet("reset", 0, 0, "ok", 0, 0)
    /\ handed' = 0
    /\ since' = [active |-> TRUE, used |-> SumOff(head), largest |-> MaxSize(head),
                 total |-> 0, len |-> Len(head)]
    /\ blocks' = {}
    /\ copied' = NoCopy
    /\ UNCHANGED <<region_pool, astate, released, allocator, tabVars, setVars, bumpVars>>

InitArena ==
    /\ NoArena
    /\ allocator = "fresh"
    /\ NoTable
    /\ NoSet
    /\ NoBump

\* The requests of SpecArena: 2049 is aligned to 2056.
ArenaSizes == {2049, 4096, 5000}

NextArena ==
    \/ \E size \in ArenaSizes : RawAlloc("raw_alloc", size, MaxRegions)
    \/ RawAlloc("raw_resize", COMT_PAGE_SIZE, MaxRegions)
    \/ RawDealloc(COMT_PAGE_SIZE)
    \/ Reserve(COMT_PAGE_SIZE, MaxRegions)
    \/ Reset

SpecArena == InitArena /\ [][NextArena]_vars

\* An arena that only grows, by page-size requests: no bound on the chain.
NextArenaFill ==
    \/ RawAlloc("raw_alloc", COMT_PAGE_SIZE, Len(head) + 1)
    \/ RawAlloc("raw_resize", COMT_PAGE_SIZE, Len(head) + 1)
    \/ RawDealloc(COMT_PAGE_SIZE)
    \/ Reserve(COMT_PAGE_SIZE, Len(head) + 1)

SpecArenaFill == InitArena /\ [][NextArenaFill]_vars

(* ---------------------------- Arena: free ----------------------------- *)
\* ArenaAllocator::free: the munmap calls it makes on the chain h, in order.
\* The loop visits every region r and unmaps head->data, head->size.
free(h) == [i \in 1..Len(h) |-> [data |-> h[1].data, size |-> h[1].size]]

\* free() ends the life of the arena: its regions are not used afterwards.
Free ==
    /\ astate = "ok"
    /\ released' = released \o free(head)
    /\ astate' = "freed"
    /\ aret' = ARet("free", 0, 0, "ok", 0, 0)
    /\ UNCHANGED <<head, region_pool, handed, since, blocks, copied, allocator,
                   tabVars, setVars, bumpVars>>

NextArenaFree ==
    \/ \E size \in ArenaSizes : RawAlloc("raw_alloc", size, MaxRegions)
    \/ Reserve(COMT_PAGE_SIZE, MaxRegions)
    \/ Free

SpecArenaFree == InitArena /\ [][NextArenaFree]_vars

(* ------------------------ FixedBufferAllocator ------------------------ *)
DEFAULT_PAGE_COUNT == 5

\* COMT_ALLOC_PAGE for the buffer: the mapping succeeds, or mmap returns
\* MAP_FAILED, which is not the null pointer.
MapOutcomes == {"ok", "fail"}

\* A size test that also refuses a request of exactly buffer_size.
OversizedOrEqual(s, bsize) == s >= bsize

\* size > buffer_size
Oversized(s, bsize) == s > bsize

\* buffer_size - buffer_off < size, in unsigned arithmetic: a cursor above
\* buffer_size gives a difference above every request, and so does a
\* negative boff, which stands for 2^64 + boff.
MustWrap(bsize, boff, s) == bsize - boff >= 0 /\ bsize - boff < s

\* A cursor that stays where it is.
CursorStays(boff, s) == boff

\* buffer_off += size
Advance(boff, s) == boff + s

\* FixedBufferAllocator::raw_alloc on the allocator (buf, bsize, boff).
BumpAlloc(buf, bsize, boff, size, os) ==
    LET s      == align_to(size, PointerSize)
        least  == COMT_PAGE_SIZE * DEFAULT_PAGE_COUNT
        bsize1 == IF buf = "null"
                  THEN align_to(IF s > least THEN s ELSE least, COMT_PAGE_SIZE)
                  ELSE bsize
        buf1   == IF buf # "null" THEN buf
                  ELSE IF os = "ok" THEN "mapped" ELSE "failed"
        boff1  == IF buf = "null" THEN 0 ELSE boff
        call   == [op |-> "raw_alloc", size |-> size, s |-> s, ptr |-> "null",
                   off |-> 0, cur |-> boff1, os |-> os]
    IN  IF Oversized(s, bsize1)
        THEN [buffer |-> buf1, buffer_size |-> bsize1, buffer_off |-> boff1,
              ret |-> call]
        ELSE IF MustWrap(bsize1, boff1, s)
        THEN [buffer |-> buf1, buffer_size |-> bsize1, buffer_off |-> s,
              ret |-> [call EXCEPT !.ptr = buf1, !.off = 0]]
        ELSE [buffer |-> buf1, buffer_size |-> bsize1,
              buffer_off |-> Advance(boff1, s),
              ret |-> [call EXCEPT !.ptr = buf1, !.off = boff1]]

\* FixedBufferAllocator::raw_dealloc: ptr == buffer + buffer_off compares
\* the pointer with the cursor; size is subtracted as it was passed.
BumpDealloc(buf, boff, ptr, off, size) ==
    IF ptr = buf /\ off = boff THEN boff - size ELSE boff

BRawAlloc(size) ==
    \E os \in (IF buffer = "null" THEN MapOutcomes ELSE {"ok"}) :
        LET r == BumpAlloc(buffer, buffer_size, buffer_off, size, os)
        IN  /\ buffer' = r.buffer
            /\ buffer_size' = r.buffer_size
            /\ buffer_off' = r.buffer_off
            /\ bret' = r.ret
            /\ prev' = bret
            /\ UNCHANGED <<allocator, tabVars, setVars, arenaVars>>

\* raw_dealloc(p, n) of the block c that an earlier raw_alloc(n) returned.
BRawDealloc(c) ==
    /\ c.op = "raw_alloc"
    /\ c.ptr # "null"
    /\ buffer_off' = BumpDealloc(buffer, buffer_off, c.ptr, c.off, c.size)
    /\ bret' = [c EXCEPT !.op = "raw_dealloc", !.cur = buffer_off, !.os = "ok"]
    /\ prev' = bret
    /\ UNCHANGED <<buffer, buffer_size, allocator, tabVars, setVars, arenaVars>>

InitBump ==
    /\ NoBump
    /\ allocator = "fresh"
    /\ NoTable
    /\ NoSet
    /\ NoArena

\* The requests of SpecBump: 4090 is aligned to 4096, 20481 to 20488.
BumpSizes == {4090, 4096, 16384, 20480, 20481}

\* The cursor stays within MaxCursor bytes of the buffer.
MaxCursor == 40960

NextBump ==
    \/ \E size \in BumpSizes : BRawAlloc(size)
    \/ bret.op = "raw_alloc" /\ buffer_off >= -MaxCursor /\ BRawDealloc(bret)
    \/ bret.op = "raw_alloc" /\ buffer_off >= -MaxCursor /\ BRawDealloc(prev)

SpecBump == InitBump /\ [][NextBump]_vars

(* ------------------- Arena: the blocks handed out --------------------- *)
\* What lies behind the last byte of a region's data block is the choice of
\* the OS: nothing is mapped there, or the mapping made just before this
\* one (mmap hands out addresses downwards, so a new mapping ends where the
\* previous one starts), or a mapping that is not the arena's.
Behind == {"unmapped", "previous", "foreign"}

\* The size of the region of the chain h whose data block is d.
RegionSize(h, d) == h[CHOOSE i \in 1..Len(h) : h[i].data = d].size

\* raw_resize copies old_size bytes, whatever new_size is.
memcpy_len(old_size, new_size) == old_size

\* memcpy(new_ptr, old_ptr, old_size) of raw_resize into the block new of
\* the chain h: len bytes from new.off on, over of them behind the end of
\* the region.
Memcpy(h, new, old, behind) ==
    LET len  == memcpy_len(old.size, new.size)
        over == new.off + len - RegionSize(h, new.data)
    IN  IF old = NoBlock THEN NoCopy
        ELSE [src |-> old, data |-> new.data, off |-> new.off, len |-> len,
              over |-> IF over > 0 THEN over ELSE 0,
              behind |-> IF over > 0 THEN behind ELSE "none"]

\* raw_alloc and raw_resize(old_ptr, old_size, size) with their blocks; the
\* old block of a raw_resize is one of blocks, or null with old_size 0.
TrackedAlloc(op, size, limit) ==
    /\ astate = "ok"
    /\ \E os \in OsOutcomes :
       \E old \in (IF op = "raw_resize" THEN blocks \cup {NoBlock} ELSE {NoBlock}) :
       \E behind \in Behind :
           LET r   == raw_alloc(head, region_pool, size, os)
               new == [data |-> r.data, off |-> r.off, size |-> size, s |-> r.s]
               c   == IF r.st = "ok" THEN Memcpy(r.head, new, old, behind) ELSE NoCopy
           IN  /\ Len(r.head) <= limit
               /\ head' = r.head
               /\ region_pool' = r.pool
               /\ astate' = IF c.behind = "unmapped" THEN "segv" ELSE r.st
               /\ aret' = ARet(op, size, r.s, os, r.data, r.off)
               /\ handed' = IF r.st = "ok" THEN handed + r.s ELSE handed
               /\ blocks' = IF r.st = "ok" THEN blocks \cup {new} ELSE blocks
               /\ copied' = c
    /\ since' = NoSince
    /\ UNCHANGED <<released, allocator, tabVars, setVars, bumpVars>>

\* Regions the head chain may hold in SpecArenaBlocks.
MaxBlockRegions == 2

NextArenaBlocks ==
    \/ \E size \in ArenaSizes : TrackedAlloc("raw_alloc", size, MaxBlockRegions)
    \/ \E size \in ArenaSizes : TrackedAlloc("raw_resize", size, MaxBlockRegions)
    \/ RawDealloc(COMT_PAGE_SIZE)
    \/ Reserve(COMT_PAGE_SIZE, MaxBlockRegions)
    \/ Reset

SpecArenaBlocks == InitArena /\ [][NextArenaBlocks]_vars

(* --------------------- containers of any capacity --------------------- *)
\* alloc stores the capacity argument as it is, 0 included.  On a store of
\* capacity 0 the load is the conversion of NaN (0.0 / 0.0) or of infinity
\* to uint8_t, which is undefined: the gate is taken ("rehash") or not.
\* When it is not taken, hash % capacity divides by zero: the call traps
\* ("fpe"), or goes on with an index outside the empty arrays ("oob").
ZeroCapOutcomes == {"rehash", "fpe", "oob"}

\* Table::put on a table of capacity 0.
TablePutZero(t, key, value, mem, ub) ==
    IF ub = "rehash"
    THEN LET new == TableAlloc(COMT_TABLE_GROWTH_FACTOR(t.capacity), mem)
             r   == PutProbe(new, key, value, Hash(key) % new.capacity, 0)
         IN  [tab |-> r.tab, st |-> r.st, rehashes |-> 1]
    ELSE [tab |-> t, st |-> ub, rehashes |-> 0]

\* Set::put on a set of capacity 0: without a rehash meta[hash] is read
\* outside the array, and (hash + 1) % capacity divides by zero.
SetPutZero(s, elem, mem, rd, ub) ==
    IF ub = "rehash"
    THEN LET new == SetAlloc(COMT_SET_GROWTH_FACTOR(s.capacity), mem)
             r   == SetPutProbe(new, elem, Hash(elem), 0, rd)
         IN  [set |-> r.set, st |-> r.st, rehashes |-> 1, oob |-> r.oob]
    ELSE IF rd = "free"
    THEN [set |-> [s EXCEPT !.count = @ + 1], st |-> "ok", rehashes |-> 0,
          oob |-> TRUE]
    ELSE IF rd = "equal"
    THEN [set |-> s, st |-> "ok", rehashes |-> 0, oob |-> TRUE]
    ELSE [set |-> s, st |-> ub, rehashes |-> 0, oob |-> TRUE]

\* Largest capacity argument of SpecCapacity (the smallest is 0).
MaxCapArg == 1

\* Puts that a set of capacity 0 may count.
MaxZeroCount == 2

\* Either a Table or a Set is allocated; the other one is "absent".
InitCapacity ==
    /\ allocator \in {"fresh", "recycled"}
    /\ \/ /\ \E capacity \in 0..MaxCapArg : \E mem \in Memory(allocator) :
                  TableIs(capacity, mem)
          /\ set = NoStore /\ elems = {} /\ sret = NoSRet /\ sstate = "absent"
          /\ sclear0 = TRUE /\ oob = FALSE
       \/ /\ \E capacity \in 0..MaxCapArg : \E mem \in Memory(allocator) :
                  set = SetAlloc(capacity, mem)
          /\ elems = {} /\ sret = NoSRet /\ sstate = "ok"
          /\ sclear0 = SetAllClear(set) /\ oob = FALSE
          /\ tab = NoStore /\ shadow = EmptyShadow /\ ret = NoRet
          /\ tstate = "absent" /\ clear0 = TRUE /\ nrehash = 0
    /\ NoArena
    /\ NoBump

PutZero(key, value) ==
    /\ tstate = "ok"
    /\ tab.capacity = 0
    /\ \E mem \in Memory(allocator) : \E ub \in ZeroCapOutcomes :
           LET r == TablePutZero(tab, key, value, mem, ub)
           IN  /\ tab' = r.tab
               /\ tstate' = r.st
               /\ nrehash' = nrehash + r.rehashes
               /\ shadow' = IF r.st = "ok" THEN (key :> value) @@ shadow ELSE shadow
               /\ ret' = [NoRet EXCEPT !.op = "put"]
    /\ UNCHANGED <<allocator, clear0, setVars, arenaVars, bumpVars>>

SPutZero(elem) ==
    /\ sstate = "ok"
    /\ set.capacity = 0
    /\ set.count < MaxZeroCount
    /\ \E mem \in Memory(allocator) : \E rd \in OobReads : \E ub \in ZeroCapOutcomes :
           LET r == SetPutZero(set, elem, mem, rd, ub)
           IN  /\ set' = r.set
               /\ sstate' = r.st
               /\ oob' = (oob \/ r.oob)
               /\ elems' = IF r.st = "ok" THEN elems \cup {elem} ELSE elems
               /\ sret' = [NoSRet EXCEPT !.op = "put", !.st = r.st]
    /\ UNCHANGED <<allocator, sclear0, tabVars, arenaVars, bumpVars>>

NextCapacity ==
    \/ \E key \in Keys, value \in Values : tab.capacity > 0 /\ Put(key, value)
    \/ \E key \in Keys, value \in Values : PutZero(key, value)
    \/ \E elem \in Keys : set.capacity > 0 /\ SPut(elem)
    \/ \E elem \in Keys : SPutZero(elem)

SpecCapacity == InitCapacity /\ [][NextCapacity]_vars

(* ------------------------------ claims -------------------------------- *)
Ratio70(t) == t.count * 100 >= 70 * t.capacity

\* C1: starting from an empty table with every occupancy byte clear, after
\* any sequence of puts every key ever put is found by has and by get, and
\* get yields the value of the key's most recent put, rehashes included.
C1_Retrievable ==
    (tstate = "ok" /\ clear0) =>
        \A k \in DOMAIN shadow :
            /\ TableHas(tab, k).found
            /\ TableGet(tab, k, OutInit).found
            /\ TableGet(tab, k, OutInit).out = shadow[k]

\* C1 with a fresh allocator: it holds when every block a rehash is handed
\* is zero-filled.
C1_FreshAllocator == allocator = "fresh" => C1_Retrievable

\* C2: after any sequence of puts on an initially empty table, count is the
\* number of distinct keys ever put.
C2_CountDistinct ==
    (tstate = "ok" /\ clear0) => tab.count = Cardinality(DOMAIN shadow)

C2_FreshAllocator == allocator = "fresh" => C2_CountDistinct

\* C3: get and has of a key that was never put examine at most capacity
\* slots and return false, and get leaves *out as it was.
C3_AbsentKey ==
    (clear0 /\ ret.op \in {"get", "has"} /\ ret.key \notin DOMAIN shadow) =>
        /\ ~ret.found
        /\ ret.steps <= tab.capacity
        /\ ret.out = ret.was

C3_FreshAllocator == allocator = "fresh" => C3_AbsentKey

C6_SetRetrievable ==
    (allocator = "fresh" /\ sclear0) =>
        /\ (sret.op = "has" /\ sret.elem \in elems) => (sret.st = "ok" /\ sret.found)
        /\ sstate = "ok" => set.count = Cardinality(elems)

\* C6 for the sets whose calls never used an index >= capacity.
C6_InBounds == ~oob => C6_SetRetrievable

\* C7: Set::has terminates for every element, and for an element that was
\* never put it returns false after the probe has visited every slot.
\* Stated for a fresh allocator.
C7_SetHasTerminates ==
    (allocator = "fresh" /\ sclear0 /\ sret.op = "has") =>
        /\ sret.st = "ok"
        /\ sret.elem \notin elems => (~sret.found /\ sret.steps = set.capacity)

\* C7 for the sets whose calls never used an index >= capacity.
C7_InBounds == ~oob => C7_SetHasTerminates

\* C8: with s the size aligned to the pointer width, a raw_alloc whose OS
\* mappings succeed serves the block from the first region in head order with
\* size - off >= s, advancing only that region's off by s and leaving the
\* chain, every other region and region_pool unchanged; if no region fits,
\* exactly one region of size s rounded up to the page size is prepended, the
\* block is at offset 0 of it, and the older regions keep order and offsets.
C8_Placement ==
    [][(aret'.op = "raw_alloc" /\ aret'.os = "ok") =>
        LET s == align_to(aret'.size, PointerSize)
            fits == {i \in 1..Len(head) : head[i].size - head[i].off >= s}
        IN  IF fits # {}
            THEN LET i == CHOOSE i \in fits : \A j \in fits : i <= j
                 IN  /\ astate' = "ok"
                     /\ head' = [head EXCEPT ![i].off = @ + s]
                     /\ aret'.data = head[i].data
                     /\ aret'.off = head[i].off
                     /\ region_pool' = region_pool
            ELSE /\ astate' = "ok"
                 /\ Len(head') = Len(head) + 1
                 /\ head'[1].size = align_to(s, COMT_PAGE_SIZE)
                 /\ head'[1].off = s
                 /\ aret'.data = head'[1].data
                 /\ aret'.off = 0
                 /\ \A i \in 1..Len(head) : head'[i + 1] = head[i]]_vars

C10_ResetStep ==
    aret'.op = "reset" =>
        /\ astate' = astate
        /\ Len(head') = Len(head)
        /\ region_pool' = region_pool
        /\ \A i \in 1..Len(head) :
               /\ head'[i].off = 0
               /\ head'[i].size = head[i].size
               /\ head'[i].data = head[i].data

\* C10, as stated: after reset() on an arena whose head offsets summed to U,
\* the reset part holds and raw_alloc calls whose aligned sizes total at most
\* U leave the head chain without a new region.
C10_ReuseAfterReset ==
    /\ []((astate = "ok" /\ since.active) => Len(head) = since.len)
    /\ [][C10_ResetStep]_vars

\* C10, amended: the reset part holds, and raw_alloc calls after the reset
\* whose aligned sizes total at most U and at most the size of the largest
\* head region leave the head chain without a new region.
C10_ReuseWithinLargestRegion ==
    /\ []((astate = "ok" /\ since.active /\ since.total <= since.largest)
            => Len(head) = since.len)
    /\ [][C10_ResetStep]_vars

\* C10's case: a chain of several regions was reset and a raw_alloc within the
\* budget has since been served from it.
C10_Witness ==
    /\ astate = "ok"
    /\ since.active
    /\ since.used > 0
    /\ since.total > 0
    /\ since.total <= since.largest
    /\ since.len >= 2
    /\ aret.op = "raw_alloc"

\* The munmap calls made on the data block d.
Releases(d) == Cardinality({i \in 1..Len(released) : released[i].data = d})

\* C11: after free() on an arena whose head chain holds n >= 1 regions, the
\* data block of each of the n regions has been returned to the OS exactly
\* once, and no region_pool page (data block 0) has been released.
C11_FreeReleasesAll ==
    (astate = "freed" /\ Len(head) >= 1) =>
        /\ \A i \in 1..Len(head) : Releases(head[i].data) = 1
        /\ Releases(0) = 0

\* C11 for a chain of one region.
C11_SingleRegion == (astate = "freed" /\ Len(head) = 1) => C11_FreeReleasesAll

\* C12: if p is the pointer returned by the most recent raw_alloc(n), n > 0,
\* of the bump allocator and no other call intervened, raw_dealloc(p, n)
\* rewinds the cursor to p's offset: buffer_off = p - buffer.
C12_LifoFree ==
    (/\ bret.op = "raw_dealloc"
     /\ prev.op = "raw_alloc"
     /\ prev.size > 0
     /\ bret.ptr = prev.ptr /\ bret.off = prev.off /\ bret.size = prev.size)
        => buffer_off = prev.off

\* C13: raw_dealloc(ptr, size) of a pointer that an earlier raw_alloc(size)
\* returned and that is not the most recent allocation leaves buffer,
\* buffer_size and buffer_off unchanged.
C13_NonLifoFreeNoOp ==
    [][(/\ bret.op = "raw_alloc"
        /\ bret'.op = "raw_dealloc"
        /\ <<bret'.ptr, bret'.off>> # <<bret.ptr, bret.off>>)
           => UNCHANGED <<buffer, buffer_size, buffer_off>>]_vars

\* The byte ranges of the blocks of the calls c and d have a byte in common.
Overlap(c, d) ==
    /\ c.ptr = d.ptr
    /\ c.s > 0 /\ d.s > 0
    /\ c.off < d.off + d.s
    /\ d.off < c.off + c.s

\* The last two calls were raw_alloc calls that returned blocks whose
\* aligned sizes sum to at most buffer_size.
TwoAllocsWithinBuffer ==
    /\ prev.op = "raw_alloc" /\ prev.ptr # "null"
    /\ bret.op = "raw_alloc" /\ bret.ptr # "null"
    /\ prev.s + bret.s <= buffer_size

\* C14, as stated: from any reachable cursor position, two successive
\* raw_alloc calls whose aligned sizes sum to at most buffer_size return
\* byte ranges that do not overlap.
C14_NoOverlap == TwoAllocsWithinBuffer => ~Overlap(prev, bret)

\* C14, amended: two successive raw_alloc calls whose aligned sizes sum to
\* at most buffer_size return byte ranges that do not overlap, provided the
\* second call finds its aligned size in what remains of the buffer behind
\* the cursor, so that it does not wrap.
C14_NoOverlapWithoutWrap ==
    (TwoAllocsWithinBuffer /\ buffer_size - bret.cur >= bret.s)
        => ~Overlap(prev, bret)

\* C14's case: the first of the two calls wrapped the cursor and the second
\* was served behind it.
C14_Witness ==
    /\ TwoAllocsWithinBuffer
    /\ buffer_size - bret.cur >= bret.s
    /\ prev.cur > 0 /\ prev.off = 0
    /\ bret.off = prev.s

\* C15: once the buffer exists, a raw_alloc whose aligned size exceeds
\* buffer_size returns null and leaves buffer, buffer_size and buffer_off
\* unchanged; a raw_alloc whose aligned size is at most buffer_size returns
\* a pointer that is not null.
C15_OversizedRequest ==
    [][bret'.op = "raw_alloc" =>
        /\ (buffer # "null" /\ bret'.s > buffer_size)
              => (bret'.ptr = "null" /\ UNCHANGED <<buffer, buffer_size, buffer_off>>)
        /\ bret'.s <= buffer_size' => bret'.ptr # "null"]_vars

\* C15's case: a request above buffer_size was refused and the cursor is
\* inside the buffer.
C15_Witness ==
    /\ bret.op = "raw_alloc"
    /\ bret.s > buffer_size
    /\ bret.ptr = "null"
    /\ prev.op = "raw_alloc" /\ prev.ptr # "null"
    /\ buffer_off > 0

\* C16: when the mapping of the bump allocator's buffer fails, the failed
\* mapping is not stored as the buffer and no raw_alloc returns a pointer
\* derived from it.
C16_MappingFailureFatal ==
    /\ buffer # "failed"
    /\ ~(bret.op = "raw_alloc" /\ bret.ptr = "failed")

\* The capacity and count of a container are as C17 says.
CapacityOk(c) == c.capacity >= 1 /\ c.count <= c.capacity

\* C17: for every capacity argument accepted by Table::alloc / Set::alloc,
\* 0 included, the container has capacity >= 1 after alloc and after every
\* put that returned, count <= capacity, and no put decreases the capacity.
C17_CapacityInvariant ==
    /\ [](/\ tstate = "ok" => CapacityOk(tab)
          /\ sstate = "ok" => CapacityOk(set))
    /\ [][tab'.capacity >= tab.capacity /\ set'.capacity >= set.capacity]_vars

\* C17 for the tables allocated with a capacity argument >= 1.
C17_TableFromNonZero == tstate = "ok" => CapacityOk(tab)

\* C17 for the sets allocated with a capacity argument >= 1.
C17_SetFromNonZero == sstate = "ok" => CapacityOk(set)

\* C18: every index that Set::put and Set::has use to read or write
\* values[] and meta[] is below capacity, for every element.
C18_SetIndicesInBounds == ~oob

\* C19: when a raw_alloc or raw_resize whose OS calls succeed finds no
\* region that fits, alloc_region returns a descriptor of the request
\* rounded up to the page size, and the head chain is the old chain behind
\* that one region; when region_pool is empty or its current region has
\* less than sizeof(Region) bytes left, one metadata page is prepended to
\* region_pool.
C19_PoolExhaustion ==
    [][(/\ aret'.op \in {"raw_alloc", "raw_resize"}
        /\ aret'.os = "ok"
        /\ \A i \in 1..Len(head) : head[i].size - head[i].off < aret'.s)
           => /\ astate' = "ok"
              /\ Len(head') = Len(head) + 1
              /\ \A i \in 1..Len(head) : head'[i + 1] = head[i]
              /\ head'[1].size = align_to(aret'.s, COMT_PAGE_SIZE)
              /\ (\/ region_pool = << >>
                  \/ region_pool[1].size - region_pool[1].off < RegionDescSize)
                    => /\ Len(region_pool') = Len(region_pool) + 1
                       /\ Tail(region_pool') = region_pool
                       /\ region_pool'[1].size = COMT_PAGE_SIZE]_vars

\* C20: a put performs at most one rehash, so no put made by the
\* reinsertion rehashes; the rehash of a store of capacity c leaves a
\* store of capacity (c + 1) * 3, and the store the put returns, which has
\* at most one slot more in use than when the rehash completed, is below
\* 70%.
C20_RehashNeverNests ==
    [][ret'.op = "put" =>
        /\ nrehash' <= nrehash + 1
        /\ (nrehash' = nrehash + 1 /\ tstate' = "ok")
              => /\ tab'.capacity = (tab.capacity + 1) * 3
                 /\ tab'.count * 100 < 70 * tab'.capacity]_vars

\* C20's case: a put found the table full, rehashed it and added a key.
C20_Witness ==
    /\ ret.op = "put"
    /\ tstate = "ok"
    /\ nrehash >= 1
    /\ tab.count * 3 = tab.capacity

\* C21: in every Table state reached by put calls from an empty table of
\* capacity >= 1, put terminates for every key.
C21_PutTerminates == clear0 => tstate # "hang"

\* C21 with a fresh allocator.
C21_FreshAllocator == allocator = "fresh" => C21_PutTerminates

\* The slots of the table t whose occupied bit is set.
OccupiedSlots(t) == {i \in 0..(t.capacity - 1) : COMT_TAB_IS_OCCUPIED(t.meta[i])}

\* C22: in every state of a Table that alloc or a put returned, count is
\* the number of slots whose occupied bit is set, whatever the history of
\* the allocator; in particular every slot is free after Table::alloc.
C22_CountIsOccupied == tstate = "ok" => tab.count = Cardinality(OccupiedSlots(tab))

\* C22 with a fresh allocator.
C22_FreshAllocator == allocator = "fresh" => C22_CountIsOccupied

\* C23: after any sequence of raw_alloc calls and of raw_dealloc calls that
\* pass a pointer raw_alloc returned with the size it was allocated with,
\* buffer_off has not underflowed and is at most buffer_size, and a pointer
\* returned for the aligned size s has the s bytes behind it in the buffer.
C23_CursorInBounds ==
    /\ buffer_off >= 0
    /\ buffer_off <= buffer_size
    /\ (bret.op = "raw_alloc" /\ bret.ptr # "null")
          => (bret.off >= 0 /\ bret.off + bret.s <= buffer_size)

\* The blocks b and c have a byte in common.
BlocksOverlap(b, c) ==
    /\ b.data = c.data
    /\ b.s > 0 /\ c.s > 0
    /\ b.off < c.off + c.s
    /\ c.off < b.off + b.s

\* The block b lies inside the data block of one region of the head chain.
InRegion(b) ==
    \E i \in 1..Len(head) :
        head[i].data = b.data /\ b.off >= 0 /\ b.off + b.s <= head[i].size

RECURSIVE SumBlocks(_)
SumBlocks(bs) ==
    IF bs = {} THEN 0
    ELSE LET b == CHOOSE b \in bs : TRUE IN b.s + SumBlocks(bs \ {b})

\* The blocks handed out since the last reset() are inside the regions of
\* the head chain and pairwise disjoint, and none was handed out twice.
BlocksDisjoint ==
    /\ \A b \in blocks : InRegion(b)
    /\ \A b, c \in blocks : b # c => ~BlocksOverlap(b, c)
    /\ handed = SumBlocks(blocks)

\* The memcpy of the last raw_resize wrote no byte of the old block:
\* neither inside the region of the new block nor behind its end.
OldBlockIntact ==
    \/ copied.src = NoBlock
    \/ /\ ~(/\ copied.src.data = copied.data
            /\ copied.src.off < copied.off + (copied.len - copied.over)
            /\ copied.off < copied.src.off + copied.src.size)
       /\ ~(/\ copied.behind = "previous"
            /\ copied.src.data = copied.data - 1
            /\ copied.src.off < copied.over)

\* C24: the blocks that raw_alloc and raw_resize returned since the most
\* recent reset() are pairwise disjoint and each lies inside the data
\* block of one head region; raw_resize leaves the bytes of the old block
\* intact; raw_dealloc changes no arena state.
C24_BlocksDisjointAndIntact ==
    /\ [](astate = "ok" => (BlocksDisjoint /\ OldBlockIntact))
    /\ [][aret'.op = "raw_dealloc" => UNCHANGED <<head, region_pool, astate, blocks>>]_vars

\* C24 without the part on raw_resize.
C24_BlocksDisjoint ==
    /\ [](astate = "ok" => BlocksDisjoint)
    /\ [][aret'.op = "raw_dealloc" => UNCHANGED <<head, region_pool, astate, blocks>>]_vars

\* C24 for the calls of raw_resize whose memcpy ends inside the region.
C24_IntactWithoutOverrun == (astate = "ok" /\ copied.over = 0) => OldBlockIntact

====
